---- MODULE Spec2Model ----
(***************************************************************************)
(* Boot script controller of openchami/boot-service: identifier            *)
(* classification, node resolution, scored configuration matching with    *)
(* profile fallback, the result cache, and the provider fallback wrappers. *)
(*                                                                         *)
(* Strings whose characters the code inspects (identifiers, XNames, MAC    *)
(* addresses, host patterns) are sequences of one-character strings.       *)
(* Strings the code only compares for equality (profiles, configuration    *)
(* names, groups, kernels) are TLA+ strings.                               *)
(***************************************************************************)
EXTENDS Integers, Sequences, FiniteSets, TLC

VARIABLES nodes, configs, cache, now, last, ctl

vars == <<nodes, configs, cache, now, last, ctl>>

(***************************************************************************)
(* Bounds of the model.                                                    *)
(***************************************************************************)
\* longest list GetBootConfigurations returns in the matcher runs
MaxMatchConfigs == 3
\* last instant of the clock
MaxTime == 6

(***************************************************************************)
(* Characters and strings.                                                 *)
(***************************************************************************)
Digits == {"0", "1", "2", "3", "4", "5", "6", "7", "8", "9"}

HexLetters == {"a", "b", "c", "d", "e", "f", "A", "B", "C", "D", "E", "F"}

DigitVal(ch) ==
  CASE ch = "0" -> 0 [] ch = "1" -> 1 [] ch = "2" -> 2 [] ch = "3" -> 3
    [] ch = "4" -> 4 [] ch = "5" -> 5 [] ch = "6" -> 6 [] ch = "7" -> 7
    [] ch = "8" -> 8 [] ch = "9" -> 9

\* simple case folding of one character (the letters the model uses)
FoldChar(ch) ==
  CASE ch = "A" -> "a" [] ch = "B" -> "b" [] ch = "C" -> "c"
    [] ch = "D" -> "d" [] ch = "E" -> "e" [] ch = "F" -> "f"
    [] OTHER -> ch

\* strings.EqualFold
EqualFold(s, t) ==
  /\ Len(s) = Len(t)
  /\ \A i \in 1..Len(s) : FoldChar(s[i]) = FoldChar(t[i])

\* a digit string without its leading zeros
RECURSIVE StripZeros(_)
StripZeros(s) ==
  IF Len(s) > 0 /\ s[1] = "0" THEN StripZeros(Tail(s)) ELSE s

\* the decimal digits of the largest int (1<<63 - 1) and of -(1<<63)
MaxIntDigits ==
  <<"9", "2", "2", "3", "3", "7", "2", "0", "3", "6", "8", "5", "4", "7", "7", "5",
    "8", "0", "7">>
MinIntDigits == [MaxIntDigits EXCEPT ![Len(MaxIntDigits)] = "8"]

\* a <= b for digit strings without leading zeros
DigitsLeq(a, b) ==
  \/ Len(a) < Len(b)
  \/ /\ Len(a) = Len(b)
     /\ \/ a = b
        \/ \E i \in 1..Len(a) :
             /\ DigitVal(a[i]) < DigitVal(b[i])
             /\ \A j \in 1..(i - 1) : a[j] = b[j]

\* strconv.Atoi succeeds: optional sign, then one or more decimal digits,
\* the value within the range of int
AtoiOk(s) ==
  LET body == IF Len(s) > 0 /\ s[1] \in {"+", "-"} THEN Tail(s) ELSE s
  IN  /\ Len(body) > 0
      /\ \A i \in 1..Len(body) : body[i] \in Digits
      /\ DigitsLeq(StripZeros(body),
                   IF s[1] = "-" THEN MinIntDigits ELSE MaxIntDigits)

RECURSIVE DecimalValue(_)
DecimalValue(s) ==
  IF Len(s) = 0 THEN 0
  ELSE 10 * DecimalValue(SubSeq(s, 1, Len(s) - 1)) + DigitVal(s[Len(s)])

\* strconv.Atoi's value, where AtoiOk
AtoiVal(s) ==
  IF s[1] = "-" THEN 0 - DecimalValue(Tail(s))
  ELSE IF s[1] = "+" THEN DecimalValue(Tail(s))
  ELSE DecimalValue(s)

\* validation.ValidateXName: x<cabinet>c<chassis>s<slot>b<blade>n<node>
RECURSIVE XNameFrom(_, _, _)
XNameFrom(s, i, letters) ==
  IF letters = <<>> THEN i = Len(s) + 1
  ELSE /\ i <= Len(s)
       /\ s[i] = Head(letters)
       /\ \E j \in (i + 2)..(Len(s) + 1) :
            /\ \A k \in (i + 1)..(j - 1) : s[k] \in Digits
            /\ XNameFrom(s, j, Tail(letters))

ValidateXName(s) == XNameFrom(s, 1, <<"x", "c", "s", "b", "n">>)

\* validation.ValidateMAC: six pairs of hex digits separated by colons
ValidateMAC(s) ==
  /\ Len(s) = 17
  /\ \A i \in 1..17 :
       IF i % 3 = 0 THEN s[i] = ":" ELSE s[i] \in Digits \cup HexLetters

(***************************************************************************)
(* Identifier classification (controller.go, parseNodeIdentifier).         *)
(***************************************************************************)
IdentifierXName == "XName"
IdentifierNID == "NID"
IdentifierMAC == "MAC"
IdentifierUnknown == "Unknown"

\* mutation of parseNodeIdentifier: a NID must be positive
parseNodeIdentifierPositiveOnly(identifier) ==
  IF ValidateXName(identifier)
    THEN [Value |-> identifier, Type |-> IdentifierXName]
  ELSE IF AtoiOk(identifier) /\ AtoiVal(identifier) > 0
    THEN [Value |-> identifier, Type |-> IdentifierNID]
  ELSE IF ValidateMAC(identifier)
    THEN [Value |-> identifier, Type |-> IdentifierMAC]
  ELSE [Value |-> identifier, Type |-> IdentifierUnknown]

parseNodeIdentifier(identifier) ==
  IF ValidateXName(identifier)
    THEN [Value |-> identifier, Type |-> IdentifierXName]
  ELSE IF AtoiOk(identifier) /\ AtoiVal(identifier) >= 0
    THEN [Value |-> identifier, Type |-> IdentifierNID]
  ELSE IF ValidateMAC(identifier)
    THEN [Value |-> identifier, Type |-> IdentifierMAC]
  ELSE [Value |-> identifier, Type |-> IdentifierUnknown]

(***************************************************************************)
(* Node resolution (controller.go, resolveNode).                           *)
(***************************************************************************)
\* the test of one loop iteration: does nodeItem match the identifier
nodeMatches(nodeItem, identifier) ==
  CASE identifier.Type = IdentifierXName -> nodeItem.XName = identifier.Value
    [] identifier.Type = IdentifierNID -> nodeItem.NID = AtoiVal(identifier.Value)
    [] identifier.Type = IdentifierMAC -> EqualFold(nodeItem.BootMAC, identifier.Value)
    [] OTHER -> FALSE

\* mutation of resolveNode: the last matching node is returned
resolveNodeLastMatch(nodeList, getOk, identifier) ==
  IF ~getOk THEN [idx |-> 0, err |-> "getting nodes"]
  ELSE LET hits == {i \in 1..Len(nodeList) : nodeMatches(nodeList[i], identifier)}
       IN  IF hits = {} THEN [idx |-> 0, err |-> "node not found"]
           ELSE [idx |-> CHOOSE i \in hits : \A j \in hits : i >= j, err |-> ""]

\* getOk: GetNodes returned without error.  The result is the index of the
\* first matching node, 0 with an error reason otherwise.
resolveNode(nodeList, getOk, identifier) ==
  IF ~getOk THEN [idx |-> 0, err |-> "getting nodes"]
  ELSE LET hits == {i \in 1..Len(nodeList) : nodeMatches(nodeList[i], identifier)}
       IN  IF hits = {} THEN [idx |-> 0, err |-> "node not found"]
           ELSE [idx |-> CHOOSE i \in hits : \A j \in hits : i <= j, err |-> ""]

(***************************************************************************)
(* Configuration matching (controller.go, findBootConfiguration).          *)
(***************************************************************************)
matchesPattern(pattern, value) ==
  IF pattern = <<"*">> THEN TRUE
  ELSE IF pattern = value THEN TRUE
  ELSE FALSE

\* mutation of macMatches: the comparison is case-sensitive
macMatchesExact(mac, node) == mac = node.BootMAC

\* the test of the MAC loop
macMatches(mac, node) == EqualFold(mac, node.BootMAC)

\* mutation of calculateConfigScore: no base score for a configuration
\* without targeting fields
calculateConfigScoreNoCatchAll(config, node) ==
  LET hostHits == {i \in 1..Len(config.Hosts) :
                       \/ matchesPattern(config.Hosts[i], node.XName)
                       \/ matchesPattern(config.Hosts[i], node.Hostname)}
      macHits == {i \in 1..Len(config.MACs) : macMatches(config.MACs[i], node)}
      nidHits == {i \in 1..Len(config.NIDs) : config.NIDs[i] = node.NID}
      groupPairs == {p \in (1..Len(config.Groups)) \X (1..Len(node.Groups)) :
                       config.Groups[p[1]] = node.Groups[p[2]]}
  IN  50 * Cardinality(hostHits) + 100 * Cardinality(macHits)
        + 75 * Cardinality(nidHits) + 25 * Cardinality(groupPairs)

calculateConfigScore(config, node) ==
  LET hostHits == {i \in 1..Len(config.Hosts) :
                       \/ matchesPattern(config.Hosts[i], node.XName)
                       \/ matchesPattern(config.Hosts[i], node.Hostname)}
      macHits == {i \in 1..Len(config.MACs) : macMatches(config.MACs[i], node)}
      nidHits == {i \in 1..Len(config.NIDs) : config.NIDs[i] = node.NID}
      groupPairs == {p \in (1..Len(config.Groups)) \X (1..Len(node.Groups)) :
                       config.Groups[p[1]] = node.Groups[p[2]]}
      score == 50 * Cardinality(hostHits)
                 + 100 * Cardinality(macHits)
                 + 75 * Cardinality(nidHits)
                 + 25 * Cardinality(groupPairs)
  IN  IF score = 0 /\ Len(config.Hosts) = 0 /\ Len(config.MACs) = 0
           /\ Len(config.NIDs) = 0 /\ Len(config.Groups) = 0
        THEN 1
        ELSE score

\* a profile with the empty string read as "default"
effectiveProfile(profile) == IF profile = "" THEN "default" ELSE profile

\* mutation of profileMatches: the profile filter is dropped
profileMatchesAny(config, targetProfile) == TRUE

\* the filter of findBestCandidate's loop
profileMatches(config, targetProfile) ==
  effectiveProfile(config.Profile) = effectiveProfile(targetProfile)

\* the indices appended to candidates by findBestCandidate's loop; each
\* iteration has its own configItem (per-iteration loop variables, Go 1.22
\* and later), so a candidate points at the configuration it was scored from
candidatesOf(configList, node, targetProfile) ==
  {i \in 1..Len(configList) :
     /\ profileMatches(configList[i], targetProfile)
     /\ calculateConfigScore(configList[i], node) > 0}

\* mutation of candidateLess: priority is compared before score
candidateLessPriorityFirst(a, b, node) ==
  IF a.Priority # b.Priority
    THEN a.Priority > b.Priority
    ELSE calculateConfigScore(a, node) > calculateConfigScore(b, node)

\* mutation of candidateLess: ties on score go to the lower priority
candidateLessPriorityAscending(a, b, node) ==
  IF calculateConfigScore(a, node) # calculateConfigScore(b, node)
    THEN calculateConfigScore(a, node) > calculateConfigScore(b, node)
    ELSE a.Priority < b.Priority

\* the less function handed to sort.Slice, on two candidates
candidateLess(a, b, node) ==
  IF calculateConfigScore(a, node) # calculateConfigScore(b, node)
    THEN calculateConfigScore(a, node) > calculateConfigScore(b, node)
    ELSE a.Priority > b.Priority

\* sort.Slice is not stable ("equal elements may be reversed from their
\* original order"): candidates[0] is some candidate that no candidate is
\* less than.  The set of indices findBestCandidate can return; {} is nil.
findBestCandidate(configList, node, targetProfile) ==
  LET cands == candidatesOf(configList, node, targetProfile)
  IN  {i \in cands : \A j \in cands : ~candidateLess(configList[j], configList[i], node)}

\* mutation of isSpecificProfile: the requested-profile phase never runs
isSpecificProfileNever(profile) == FALSE

\* does findBootConfiguration run the requested-profile phase
isSpecificProfile(profile) == profile # "" /\ profile # "default"

\* getOk: GetBootConfigurations returned without error.  The set of results
\* the call can return: a configuration index, or idx 0 with an error.
findBootConfiguration(configList, getOk, node, profile) ==
  IF ~getOk THEN {[idx |-> 0, err |-> "getting boot configurations"]}
  ELSE LET first == IF isSpecificProfile(profile)
                      THEN findBestCandidate(configList, node, profile)
                      ELSE {}
           second == findBestCandidate(configList, node, "default")
       IN  IF first # {} THEN {[idx |-> i, err |-> ""] : i \in first}
           ELSE IF second # {} THEN {[idx |-> i, err |-> ""] : i \in second}
           ELSE {[idx |-> 0, err |-> "no matching configurations"]}

(***************************************************************************)
(* The inventory and the configuration catalogue the runs draw from.       *)
(***************************************************************************)
XName1 == <<"x", "1", "0", "0", "0", "c", "0", "s", "0", "b", "0", "n", "0">>
XName2 == <<"x", "1", "0", "0", "0", "c", "0", "s", "0", "b", "0", "n", "1">>
Host1 == <<"n", "i", "d", "5">>
Host2 == <<"n", "i", "d", "6">>
MacLower == <<"a", "a", ":", "b", "b", ":", "c", "c", ":", "d", "d", ":", "e", "e", ":", "f", "f">>
MacUpper == <<"A", "A", ":", "B", "B", ":", "C", "C", ":", "D", "D", ":", "E", "E", ":", "F", "F">>
MacOther == <<"0", "0", ":", "1", "1", ":", "2", "2", ":", "3", "3", ":", "4", "4", ":", "5", "5">>

Node1 == [XName |-> XName1, Hostname |-> Host1, NID |-> 5, BootMAC |-> MacLower,
          Groups |-> <<"compute">>]
Node2 == [XName |-> XName2, Hostname |-> Host2, NID |-> 6, BootMAC |-> MacOther,
          Groups |-> <<>>]

Config(name, hosts, macs, nids, groups, profile, priority) ==
  [Name |-> name, Hosts |-> hosts, MACs |-> macs, NIDs |-> nids, Groups |-> groups,
   Profile |-> profile, Kernel |-> name, Priority |-> priority]

cfgMac == Config("by-mac", <<>>, <<MacUpper>>, <<>>, <<>>, "", 10)
cfgNid == Config("by-nid", <<>>, <<>>, <<5>>, <<>>, "", 90)
cfgNidLow == Config("by-nid-low", <<>>, <<>>, <<5>>, <<>>, "default", 10)
cfgNidTwin == Config("by-nid-twin", <<>>, <<>>, <<5>>, <<>>, "", 90)
cfgCatchAll == Config("catch-all", <<>>, <<>>, <<>>, <<>>, "", 0)
cfgGpuHost == Config("gpu-host", <<<<"*">>>>, <<>>, <<>>, <<"compute">>, "gpu", 20)
cfgGpuMiss == Config("gpu-miss", <<>>, <<MacOther>>, <<>>, <<>>, "gpu", 70)

MatchCatalog == {cfgMac, cfgNid, cfgNidLow, cfgNidTwin, cfgCatchAll, cfgGpuHost, cfgGpuMiss}

Profiles == {"", "default", "gpu", "burn-in"}

\* the sequences over S of length at most n
SeqsUpTo(S, n) == UNION {[1..k -> S] : k \in 0..n}

Idle == [op |-> "none"]

NoController == [kind |-> "none"]

(***************************************************************************)
(* Matcher runs: one node, a fetched configuration list, and the matcher's *)
(* functions applied to them.                                              *)
(***************************************************************************)
InitMatch ==
  /\ nodes \in {<<Node1>>, <<Node2>>}
  /\ configs \in SeqsUpTo(MatchCatalog, MaxMatchConfigs)
  /\ cache = <<>>
  /\ now = 0
  /\ last = Idle
  /\ ctl = NoController

ApplyFindBootConfiguration ==
  \E profile \in Profiles, getOk \in BOOLEAN :
    \E r \in findBootConfiguration(configs, getOk, nodes[1], profile) :
      /\ last' = [op |-> "find", profile |-> profile, getOk |-> getOk, result |-> r]
      /\ UNCHANGED <<nodes, configs, cache, now, ctl>>

ApplyCalculateConfigScore ==
  \E i \in 1..Len(configs) :
    /\ last' = [op |-> "score", idx |-> i,
                score |-> calculateConfigScore(configs[i], nodes[1])]
    /\ UNCHANGED <<nodes, configs, cache, now, ctl>>

NextMatch == ApplyFindBootConfiguration \/ ApplyCalculateConfigScore

SpecMatch == InitMatch /\ [][NextMatch]_vars

(***************************************************************************)
(* Scripts (controller.go, generateMinimalScript and generateErrorScript). *)
(* A script is the template it was rendered from with what was substituted *)
(* into it.                                                                *)
(***************************************************************************)
Script(kind, ident, detail, kernel, node) ==
  [kind |-> kind, ident |-> ident, detail |-> detail, kernel |-> kernel, node |-> node]

\* MinimalIPXETemplate with {{.Identifier}} replaced
generateMinimalScript(identifier) == Script("minimal", identifier, "", "", <<>>)

\* ErrorIPXETemplate with {{.Error}} replaced; the message is its text and
\* the identifier it quotes
generateErrorScript(text, ident) == Script("error", ident, text, "", <<>>)

\* buildIPXEScript: the configuration's kernel rendered for the node
buildIPXEScript(config, node) == Script("boot", <<>>, "", config.Kernel, node.XName)

(***************************************************************************)
(* The result cache (ScriptCache) and its keys.                            *)
(***************************************************************************)
\* mutation of TTL: entries live twice as long
TTLDoubled == 2 * 5

\* time-to-live of a cache entry, in minutes
TTL == 5

NewScriptCache == <<>>

generateCacheKey(identifier, name) == <<identifier, name>>

cacheGet(c, key, t) ==
  IF key \in DOMAIN c /\ t < c[key].expiresAt
    THEN [found |-> TRUE, script |-> c[key].script]
    ELSE [found |-> FALSE, script |-> generateMinimalScript(<<>>)]

cacheSet(c, key, script, nodeRef, configRef, t) ==
  [k \in DOMAIN c \cup {key} |->
     IF k = key
       THEN [script |-> script, node |-> nodeRef, config |-> configRef,
             expiresAt |-> t + TTL]
       ELSE c[k]]

(***************************************************************************)
(* GenerateBootScript (controller.go).  An outcome is what one call        *)
(* returns and leaves behind: the script, the error ("" is nil), the cache *)
(* after the call, the queries it made and how resolution ended.           *)
(***************************************************************************)
Outcome(script, err, c, nodeQueries, configQueries, hit, resolveErr, findErr) ==
  [script |-> script, err |-> err, cache |-> c, nodeQueries |-> nodeQueries,
   configQueries |-> configQueries, hit |-> hit, resolveErr |-> resolveErr,
   findErr |-> findErr]

\* mutation of onResolveError: the resolution error is returned to the caller
onResolveErrorPropagated(c, identifier, reason) ==
  Outcome(generateMinimalScript(<<>>), reason, c, 1, 0, FALSE, reason, "")

\* the return of GenerateBootScript when resolveNode failed
onResolveError(c, identifier, reason) ==
  Outcome(generateErrorScript("Node resolution failed",
                              IF reason = "node not found" THEN identifier ELSE <<>>),
          "", c, 1, 0, FALSE, reason, "")

\* mutation of onConfigError: the failure is reported in an error script
onConfigErrorAsErrorScript(c, identifier, reason) ==
  Outcome(generateErrorScript("Configuration lookup failed", identifier),
          "", c, 1, 1, FALSE, "", reason)

\* mutation of onConfigError: the minimal script is stored in the cache
onConfigErrorCached(c, identifier, reason) ==
  Outcome(generateMinimalScript(identifier), "",
          cacheSet(c, generateCacheKey(identifier, ""),
                   generateMinimalScript(identifier), <<>>, "", 0),
          1, 1, FALSE, "", reason)

\* the return of GenerateBootScript when findBootConfiguration failed
onConfigError(c, identifier, reason) ==
  Outcome(generateMinimalScript(identifier), "", c, 1, 1, FALSE, "", reason)

\* nodesOk, configsOk: the inventory and configuration queries succeed;
\* buildOk: buildIPXEScript succeeds.  The set of outcomes of one call at
\* time t with cache c.
GenerateBootScript(c, t, nodeList, configList, identifier, profile, nodesOk, configsOk, buildOk) ==
  LET cached == cacheGet(c, generateCacheKey(identifier, profile), t)
      nodeID == parseNodeIdentifier(identifier)
      res == resolveNode(nodeList, nodesOk, nodeID)
      node == nodeList[res.idx]
      built(f) ==
        LET config == configList[f.idx]
            script == buildIPXEScript(config, node)
            configName == config.Name
        IN  Outcome(script, "",
                    cacheSet(c, generateCacheKey(identifier, configName), script,
                             node.XName, configName, t),
                    1, 1, FALSE, "", "")
  IN  IF cached.found
        THEN {Outcome(cached.script, "", c, 0, 0, TRUE, "", "")}
      ELSE IF res.err # ""
        THEN {onResolveError(c, identifier, res.err)}
      ELSE {IF f.err # ""
              THEN onConfigError(c, identifier, f.err)
            ELSE IF ~buildOk
              THEN Outcome(generateErrorScript("Script generation failed", <<>>),
                           "", c, 1, 1, FALSE, "", "")
            ELSE built(f) :
            f \in findBootConfiguration(configList, configsOk, node, profile)}

\* every outcome of one call, over the outcomes of its collaborators
allOutcomes(c, t, nodeList, configList, identifier, profile) ==
  UNION {GenerateBootScript(c, t, nodeList, configList, identifier, profile,
                            nodesOk, configsOk, buildOk) :
           nodesOk \in BOOLEAN, configsOk \in BOOLEAN, buildOk \in BOOLEAN}

(***************************************************************************)
(* Controllers with a node provider (part_001, part_002).                  *)
(***************************************************************************)
NewEnhancedBootScriptController == [kind |-> "enhanced", providerType |-> "hsm",
                                    nodeProvider |-> TRUE, syncProvider |-> TRUE]

\* mutation of NewFlexibleBootScriptController: an unrecognized provider type
\* gets the HSM provider
NewFlexibleBootScriptControllerDefaultHSM(config) ==
  IF config.Type = "yaml"
    THEN IF ~config.YAMLLoads
           THEN [kind |-> "failed", providerType |-> config.Type,
                 nodeProvider |-> FALSE, syncProvider |-> FALSE]
           ELSE [kind |-> "flexible", providerType |-> config.Type,
                 nodeProvider |-> TRUE, syncProvider |-> config.SyncEnabled]
  ELSE [kind |-> "flexible", providerType |-> config.Type,
        nodeProvider |-> TRUE, syncProvider |-> TRUE]

\* config.YAMLLoads: local.NewIntegrationService returns no error
NewFlexibleBootScriptController(config) ==
  IF config.Type = "hsm"
    THEN [kind |-> "flexible", providerType |-> config.Type,
          nodeProvider |-> TRUE, syncProvider |-> TRUE]
  ELSE IF config.Type = "yaml"
    THEN IF ~config.YAMLLoads
           THEN [kind |-> "failed", providerType |-> config.Type,
                 nodeProvider |-> FALSE, syncProvider |-> FALSE]
           ELSE [kind |-> "flexible", providerType |-> config.Type,
                 nodeProvider |-> TRUE, syncProvider |-> config.SyncEnabled]
  ELSE [kind |-> "flexible", providerType |-> config.Type,
        nodeProvider |-> FALSE, syncProvider |-> FALSE]

ProviderConfig(type, syncEnabled, yamlLoads) ==
  [Type |-> type, SyncEnabled |-> syncEnabled, YAMLLoads |-> yamlLoads]

\* what provider.ResolveNodeByIdentifier can return: an error, or a node
ProviderResults ==
  {[err |-> "not found", XName |-> <<>>], [err |-> "", XName |-> XName1],
   [err |-> "", XName |-> XName2]}

\* what a wrapper returns and leaves behind
Wrapped(script, c, first, nodeQueries, configQueries, providerCalls, retried) ==
  [script |-> script, err |-> "", cache |-> c, nodeQueries |-> nodeQueries,
   configQueries |-> configQueries, hit |-> first.hit, resolveErr |-> first.resolveErr,
   findErr |-> first.findErr, providerCalls |-> providerCalls, retried |-> retried]

\* the body shared by the two wrappers; hasProvider: the provider is not nil
fallbackOutcomes(hasProvider, c, t, nodeList, configList, identifier) ==
  UNION {
    IF r1.err = ""
      THEN {Wrapped(r1.script, r1.cache, r1, r1.nodeQueries, r1.configQueries, 0, <<>>)}
    ELSE IF ~hasProvider
      THEN {Wrapped(generateMinimalScript(identifier), r1.cache, r1,
                    r1.nodeQueries, r1.configQueries, 0, <<>>)}
    ELSE UNION {
      IF p.err # ""
        THEN {Wrapped(generateMinimalScript(identifier), r1.cache, r1,
                      r1.nodeQueries, r1.configQueries, 1, <<>>)}
        ELSE {Wrapped(IF r2.err # "" THEN generateMinimalScript(identifier)
                                     ELSE r2.script,
                      r2.cache, r1, r1.nodeQueries + r2.nodeQueries,
                      r1.configQueries + r2.configQueries, 1, p.XName) :
                r2 \in allOutcomes(r1.cache, t, nodeList, configList, p.XName, "")} :
      p \in ProviderResults} :
    r1 \in allOutcomes(c, t, nodeList, configList, identifier, "")}

GenerateBootScriptWithFallback(controller, c, t, nodeList, configList, identifier) ==
  fallbackOutcomes(controller.nodeProvider, c, t, nodeList, configList, identifier)

GenerateBootScriptWithHSM(c, t, nodeList, configList, identifier) ==
  fallbackOutcomes(TRUE, c, t, nodeList, configList, identifier)

(***************************************************************************)
(* Controller runs: a fixed inventory and configuration list, a clock, and *)
(* boot requests against one controller and its cache.                     *)
(***************************************************************************)
Nid9999 == <<"9", "9", "9", "9">>

\* a request for a node of the inventory, and one for a node that is nowhere
Identifiers == {XName1, Nid9999}

ctlBase == Config("base", <<>>, <<>>, <<5>>, <<>>, "", 50)
ctlGpu == Config("gpu", <<<<"*">>>>, <<>>, <<>>, <<>>, "gpu", 20)
ctlGpuDefault == Config("default", <<>>, <<>>, <<>>, <<>>, "gpu", 0)

\* the configuration lists GetBootConfigurations returns in controller runs
ConfigLists ==
  {<<>>, <<ctlBase>>, <<ctlGpu, ctlBase>>, <<ctlBase, ctlGpuDefault>>,
   <<ctlGpuDefault, ctlGpu>>}

CtlProfiles == {"", "default", "gpu"}

Inventories == {<<Node1>>, <<Node2, Node1>>}

Controllers ==
  {NewEnhancedBootScriptController,
   NewFlexibleBootScriptController(ProviderConfig("hsm", FALSE, TRUE)),
   NewFlexibleBootScriptController(ProviderConfig("redfish", FALSE, TRUE))}

Init ==
  /\ nodes \in Inventories
  /\ configs \in ConfigLists
  /\ cache = NewScriptCache
  /\ now = 0
  /\ last = Idle
  /\ ctl \in Controllers

\* the record of a call: the request, the time, and what it returned
Called(op, identifier, profile, o, providerCalls, retried) ==
  [op |-> op, identifier |-> identifier, profile |-> profile, at |-> now,
   script |-> o.script, err |-> o.err, nodeQueries |-> o.nodeQueries,
   configQueries |-> o.configQueries, hit |-> o.hit, resolveErr |-> o.resolveErr,
   findErr |-> o.findErr, providerCalls |-> providerCalls, retried |-> retried,
   n |-> IF last.op = "none" THEN 0 ELSE 1 - last.n]

CallGenerateBootScript ==
  \E identifier \in Identifiers, profile \in CtlProfiles :
    \E o \in allOutcomes(cache, now, nodes, configs, identifier, profile) :
      /\ cache' = o.cache
      /\ last' = Called("generate", identifier, profile, o, 0, <<>>)
      /\ UNCHANGED <<nodes, configs, now, ctl>>

CallGenerateBootScriptWithFallback ==
  /\ ctl.kind = "flexible"
  /\ \E identifier \in Identifiers :
       \E o \in GenerateBootScriptWithFallback(ctl, cache, now, nodes, configs, identifier) :
         /\ cache' = o.cache
         /\ last' = Called("fallback", identifier, "", o, o.providerCalls, o.retried)
         /\ UNCHANGED <<nodes, configs, now, ctl>>

CallGenerateBootScriptWithHSM ==
  /\ ctl.kind = "enhanced"
  /\ \E identifier \in Identifiers :
       \E o \in GenerateBootScriptWithHSM(cache, now, nodes, configs, identifier) :
         /\ cache' = o.cache
         /\ last' = Called("hsm", identifier, "", o, o.providerCalls, o.retried)
         /\ UNCHANGED <<nodes, configs, now, ctl>>

\* the clock advances by more than half a time-to-live: an entry outlives
\* one tick and not two
TickStep == TTL \div 2 + 1

\* time passes
Tick ==
  /\ now + TickStep <= MaxTime
  /\ now' = now + TickStep
  /\ UNCHANGED <<nodes, configs, cache, last, ctl>>

Next ==
  \/ CallGenerateBootScript
  \/ CallGenerateBootScriptWithFallback
  \/ CallGenerateBootScriptWithHSM
  \/ Tick

Spec == Init /\ [][Next]_vars

(***************************************************************************)
(* Properties of the controller, checked under Spec.                       *)
(***************************************************************************)
\* the scripts a controller without a cache can return for the last request
\* when its collaborators answer
UncachedScripts ==
  {o.script : o \in GenerateBootScript(NewScriptCache, now, nodes, configs,
                                       last.identifier, last.profile, TRUE, TRUE, TRUE)}

\* C1: every call of GenerateBootScript returns a script and a nil error,
\* whatever its collaborators did.
C1_NeverFailsOutward ==
  last.op = "generate" =>
    /\ last.err = ""
    /\ last.script.kind \in {"boot", "minimal", "error"}

\* C1 witness: the inventory query failed, and the call returned a script
\* with a nil error.
C1_Witness ==
  /\ last.op = "generate"
  /\ last.resolveErr = "getting nodes"
  /\ last.err = ""
  /\ last.script.kind = "error"

\* C2 (as claimed): when no node of the inventory matches the identifier,
\* GenerateBootScript returns the minimal script for the raw identifier, not
\* the error script, with a nil error.
C2_NotFoundYieldsMinimal ==
  (last.op = "generate" /\ last.resolveErr = "node not found") =>
    /\ last.script = generateMinimalScript(last.identifier)
    /\ last.err = ""

\* C3 (as claimed): when primary resolution fails in a wrapper whose
\* controller has a node provider, provider.ResolveNodeByIdentifier is
\* invoked for the identifier.
C3_ProviderConsulted ==
  (last.op \in {"fallback", "hsm"} /\ last.resolveErr # "" /\ ctl.nodeProvider) =>
    last.providerCalls = 1

\* C4 (as claimed): a request that resolved a node and a configuration,
\* repeated within the time-to-live, returns the same script and is served
\* from the cache, with no inventory and no configuration query.
C4_RepeatServedFromCache ==
  [][(/\ last.op = "generate"
      /\ last.script.kind = "boot"
      /\ last'.op = "generate"
      /\ last'.n # last.n
      /\ last'.identifier = last.identifier
      /\ last'.profile = last.profile
      /\ last'.at < last.at + TTL)
       => (/\ last'.script = last.script
           /\ last'.nodeQueries = 0
           /\ last'.configQueries = 0)]_vars

\* C5 (as claimed): a call served from the cache returns a script that a
\* controller without a cache returns for the same identifier and profile.
C5_CacheTransparent ==
  (last.op = "generate" /\ last.hit) => last.script \in UncachedScripts

(***************************************************************************)
(* Properties of the matcher, checked under SpecMatch.                     *)
(***************************************************************************)
\* C15: when the node resolves and findBootConfiguration fails (the query
\* fails, or no configuration matches), GenerateBootScript returns the
\* minimal script for the raw identifier of the request and a nil error,
\* and the script carries no failure text.
C15_ConfigFailureYieldsMinimal ==
  (/\ last.op = "generate"
   /\ ~last.hit
   /\ last.resolveErr = ""
   /\ last.findErr # "")
    => /\ last.err = ""
       /\ last.script.kind = "minimal"
       /\ last.script.ident = last.identifier
       /\ last.script.detail = ""

\* the configuration query failed for a node of the inventory
C15_Witness ==
  /\ last.op = "generate"
  /\ last.identifier = XName1
  /\ last.findErr = "getting boot configurations"
  /\ last.script = generateMinimalScript(XName1)

\* C18: a GenerateBootScript call changes the cache only when it built a
\* script after resolving the node and matching a configuration, and then
\* by one entry for its identifier holding that script, every other entry
\* staying as it was; a call that ends in a cache hit, a minimal script or
\* an error script leaves the cache as it was.
C18_CacheWrittenOnlyOnSuccess ==
  [][(last' # last /\ last'.op = "generate") =>
       IF last'.script.kind = "boot" /\ ~last'.hit
         THEN \E key \in DOMAIN cache' :
                /\ key[1] = last'.identifier
                /\ cache'[key].script = last'.script
                /\ DOMAIN cache' = DOMAIN cache \cup {key}
                /\ \A k \in DOMAIN cache : k # key => cache'[k] = cache[k]
         ELSE cache' = cache]_vars

\* a call ended in a minimal script while the cache held an entry
C18_Witness ==
  /\ last.op = "generate"
  /\ last.script.kind = "minimal"
  /\ last.nodeQueries = 1
  /\ last.configQueries = 1
  /\ DOMAIN cache # {}

FoundConfig == last.op = "find" /\ last.result.err = ""

SelectedIdx == last.result.idx

ScoreOf(i) == calculateConfigScore(configs[i], nodes[1])

ProfileOf(i) == IF configs[i].Profile = "" THEN "default" ELSE configs[i].Profile

RequestedProfile == IF last.profile = "" THEN "default" ELSE last.profile

\* C6: the configuration findBootConfiguration returns has a positive score
\* that is maximal among the configurations of the profile it was selected
\* for, whatever the priorities are.
C6_MaxScoreSelected ==
  FoundConfig =>
    /\ SelectedIdx \in 1..Len(configs)
    /\ ScoreOf(SelectedIdx) > 0
    /\ \A j \in 1..Len(configs) :
         ProfileOf(j) = ProfileOf(SelectedIdx) => ScoreOf(j) <= ScoreOf(SelectedIdx)

\* C6 witness: the MAC configuration of priority 10 (score 100) is selected
\* over the NID configuration of priority 90 (score 75).
C6_Witness ==
  /\ FoundConfig
  /\ nodes[1] = Node1
  /\ configs[SelectedIdx] = cfgMac
  /\ \E j \in 1..Len(configs) : configs[j] = cfgNid

\* C7 (amended): among the eligible configurations with the selected score,
\* none has a higher priority than the selected one; when the priority ties
\* too, any of the tied configurations may be the one selected.
C7_HigherPriorityWinsTie ==
  FoundConfig =>
    \A j \in 1..Len(configs) :
      (ProfileOf(j) = ProfileOf(SelectedIdx) /\ ScoreOf(j) = ScoreOf(SelectedIdx))
        => configs[j].Priority <= configs[SelectedIdx].Priority

\* C7 witness: the selected configuration beats a lower priority of the same
\* score, and an earlier configuration ties with it on score and priority.
C7_Witness ==
  /\ FoundConfig
  /\ \E j \in 1..Len(configs) :
       /\ ProfileOf(j) = ProfileOf(SelectedIdx)
       /\ ScoreOf(j) = ScoreOf(SelectedIdx)
       /\ configs[j].Priority < configs[SelectedIdx].Priority
  /\ \E j \in 1..(SelectedIdx - 1) :
       /\ ProfileOf(j) = ProfileOf(SelectedIdx)
       /\ ScoreOf(j) = ScoreOf(SelectedIdx)
       /\ configs[j].Priority = configs[SelectedIdx].Priority

\* C7 (as claimed): the higher priority wins a tie on score, and when the
\* priority ties too the configuration that comes first in the fetched list
\* is the one selected.
C7_StableOnIterationOrder ==
  FoundConfig =>
    \A j \in 1..Len(configs) :
      (ProfileOf(j) = ProfileOf(SelectedIdx) /\ ScoreOf(j) = ScoreOf(SelectedIdx))
        => /\ configs[j].Priority <= configs[SelectedIdx].Priority
           /\ configs[j].Priority = configs[SelectedIdx].Priority => SelectedIdx <= j

\* C8: the selected configuration's effective profile is the requested one
\* or "default"; a default or empty request selects only default-profile
\* configurations; a default-profile configuration answers a non-default
\* request only when no configuration of the requested profile scores above 0.
C8_ProfileIsolation ==
  FoundConfig =>
    /\ ProfileOf(SelectedIdx) \in {RequestedProfile, "default"}
    /\ RequestedProfile = "default" => ProfileOf(SelectedIdx) = "default"
    /\ (ProfileOf(SelectedIdx) = "default" /\ RequestedProfile # "default")
         => \A j \in 1..Len(configs) : ProfileOf(j) = RequestedProfile => ScoreOf(j) <= 0

\* C8 witness: an empty-profile request selects a default-profile
\* configuration although a "gpu" configuration scores higher for the node.
C8_Witness ==
  /\ FoundConfig
  /\ last.profile = ""
  /\ \E j \in 1..Len(configs) :
       ProfileOf(j) = "gpu" /\ ScoreOf(j) > ScoreOf(SelectedIdx)

\* C9: a non-default request with a positive-score configuration of its
\* profile selects one of that profile, even when a default-profile one
\* scores higher; without one, the result is a result of the default request;
\* the no-match error is returned only when no configuration of the
\* requested or the default profile scores above 0.
C9_TwoPhaseProfile ==
  (last.op = "find" /\ last.getOk) =>
    LET specific == RequestedProfile # "default"
        hasOwn == \E j \in 1..Len(configs) :
                    ProfileOf(j) = RequestedProfile /\ ScoreOf(j) > 0
    IN  /\ (specific /\ hasOwn)
             => (last.result.err = "" /\ ProfileOf(SelectedIdx) = RequestedProfile)
        /\ (specific /\ ~hasOwn)
             => last.result \in findBootConfiguration(configs, TRUE, nodes[1], "default")
        /\ last.result.err # ""
             => /\ last.result.err = "no matching configurations"
                /\ \A j \in 1..Len(configs) :
                     ProfileOf(j) \in {RequestedProfile, "default"} => ScoreOf(j) = 0

\* C9 witness: "gpu" is requested, a "gpu" configuration is selected, and a
\* default-profile configuration scores higher for the node.
C9_Witness ==
  /\ FoundConfig
  /\ last.profile = "gpu"
  /\ ProfileOf(SelectedIdx) = "gpu"
  /\ \E j \in 1..Len(configs) :
       ProfileOf(j) = "default" /\ ScoreOf(j) > ScoreOf(SelectedIdx)

\* C10: a configuration with a MAC entry that equals the node's boot MAC up
\* to letter case scores at least 100.
C10_MacScoreAtLeast100 ==
  last.op = "score" =>
    ((\E k \in 1..Len(configs[last.idx].MACs) :
        EqualFold(configs[last.idx].MACs[k], nodes[1].BootMAC))
       => last.score >= 100)

\* C10 witness: the scored configuration lists the node's boot MAC in another
\* letter case.
C10_Witness ==
  /\ last.op = "score"
  /\ \E k \in 1..Len(configs[last.idx].MACs) :
       /\ configs[last.idx].MACs[k] # nodes[1].BootMAC
       /\ EqualFold(configs[last.idx].MACs[k], nodes[1].BootMAC)
  /\ last.score >= 100

\* the configuration has no targeting field at all
NoTargeting(config) ==
  /\ config.Hosts = <<>>
  /\ config.MACs = <<>>
  /\ config.NIDs = <<>>
  /\ config.Groups = <<>>

\* some targeting field of the configuration matches the node
AnyTargetMatches(config, node) ==
  \/ \E k \in 1..Len(config.Hosts) :
       config.Hosts[k] \in {<<"*">>, node.XName, node.Hostname}
  \/ \E k \in 1..Len(config.MACs) : EqualFold(config.MACs[k], node.BootMAC)
  \/ \E k \in 1..Len(config.NIDs) : config.NIDs[k] = node.NID
  \/ \E k \in 1..Len(config.Groups) :
       \E g \in 1..Len(node.Groups) : config.Groups[k] = node.Groups[g]

\* C14: a configuration without targeting fields scores exactly 1 and is
\* eligible (a default-profile one makes every successful query find a
\* configuration); a configuration with targeting fields none of which
\* matches the node scores 0 and is never the one selected.
C14_CatchAllScoresOne ==
  /\ last.op = "score" =>
       LET config == configs[last.idx]
       IN  /\ NoTargeting(config) => last.score = 1
           /\ ~NoTargeting(config) /\ ~AnyTargetMatches(config, nodes[1])
                => last.score = 0
  /\ FoundConfig =>
       \/ NoTargeting(configs[SelectedIdx])
       \/ AnyTargetMatches(configs[SelectedIdx], nodes[1])
  /\ (/\ last.op = "find"
      /\ last.getOk
      /\ \E i \in 1..Len(configs) :
           NoTargeting(configs[i]) /\ ProfileOf(i) = "default")
       => FoundConfig

\* the catch-all is selected while a targeted configuration of the list
\* matches nothing of the node
C14_Witness ==
  /\ FoundConfig
  /\ NoTargeting(configs[SelectedIdx])
  /\ \E i \in 1..Len(configs) :
       /\ ~NoTargeting(configs[i])
       /\ ~AnyTargetMatches(configs[i], nodes[1])
       /\ ProfileOf(i) = ProfileOf(SelectedIdx)

(***************************************************************************)
(* The result cache on its own: Set and Get in any order while time        *)
(* passes.  last.sets remembers, for every key, when it was last set and   *)
(* with which script.                                                      *)
(***************************************************************************)
CacheKeys == {generateCacheKey(XName1, ""), generateCacheKey(XName1, "base")}

CacheScripts == {generateMinimalScript(XName1), buildIPXEScript(ctlBase, Node1)}

InitCache ==
  /\ nodes = <<Node1>>
  /\ configs = <<ctlBase>>
  /\ cache = NewScriptCache
  /\ now = 0
  /\ last = [op |-> "none", sets |-> <<>>]
  /\ ctl = NoController

\* cache.Set(key, script, ...) at the current time
ApplyCacheSet ==
  \E key \in CacheKeys, script \in CacheScripts :
    /\ cache' = cacheSet(cache, key, script, XName1, ctlBase.Name, now)
    /\ last' = [op |-> "set", key |-> key, at |-> now, found |-> FALSE,
                script |-> script,
                sets |-> [k \in DOMAIN last.sets \cup {key} |->
                            IF k = key THEN [at |-> now, script |-> script]
                                       ELSE last.sets[k]]]
    /\ UNCHANGED <<nodes, configs, now, ctl>>

\* cache.Get(key) at the current time
ApplyCacheGet ==
  \E key \in CacheKeys :
    LET got == cacheGet(cache, key, now)
    IN  /\ last' = [op |-> "get", key |-> key, at |-> now, found |-> got.found,
                    script |-> got.script, sets |-> last.sets]
        /\ UNCHANGED <<nodes, configs, cache, now, ctl>>

NextCache ==
  \/ ApplyCacheSet
  \/ ApplyCacheGet
  \/ Tick

SpecCache == InitCache /\ [][NextCache]_vars

\* C11: a Get returns the script of the last Set of its key when less than
\* five minutes have passed since that Set, and a miss when the key was
\* never set or five minutes or more have passed since its last Set.
C11_NoStaleEntry ==
  last.op = "get" =>
    IF last.key \in DOMAIN last.sets /\ last.at - last.sets[last.key].at < 5
      THEN last.found /\ last.script = last.sets[last.key].script
      ELSE ~last.found

\* a Get of a key whose last Set is five minutes or more in the past
C11_Witness ==
  /\ last.op = "get"
  /\ last.key \in DOMAIN last.sets
  /\ last.at - last.sets[last.key].at >= 5
  /\ ~last.found

(***************************************************************************)
(* Resolution runs: an inventory, and parseNodeIdentifier and resolveNode  *)
(* applied to raw identifiers.                                             *)
(***************************************************************************)
\* longest inventory GetNodes returns in the resolution runs
MaxNodes == 2

\* an integer beyond the range of int
Nid20Digits == [i \in 1..20 |-> "9"]

\* the raw identifiers of the resolution runs
RawIdentifiers ==
  {XName1, XName2, <<"x", "1", "0", "0", "0">>, <<"5">>, <<"0">>, <<"+", "5">>,
   <<"0", "0", "5">>, <<"-", "1">>, <<"-", "0">>, <<"5", "a">>, Nid9999,
   Nid20Digits, MacLower, MacUpper, <<>>}

\* a second record for Node1's XName and MAC (in upper case), another NID
Node1Alias == [Node1 EXCEPT !.NID = 7, !.BootMAC = MacUpper]
\* a second node with Node1's NID
Node2Nid5 == [Node2 EXCEPT !.NID = 5]

NodeCatalog == {Node1, Node2, Node1Alias, Node2Nid5}

InitResolve ==
  /\ nodes \in SeqsUpTo(NodeCatalog, MaxNodes)
  /\ configs = <<>>
  /\ cache = NewScriptCache
  /\ now = 0
  /\ last = Idle
  /\ ctl = NoController

ApplyParseNodeIdentifier ==
  \E raw \in RawIdentifiers :
    /\ last' = [op |-> "parse", raw |-> raw, result |-> parseNodeIdentifier(raw)]
    /\ UNCHANGED <<nodes, configs, cache, now, ctl>>

\* resolveNode on a classified identifier, GetNodes succeeding or failing
ApplyResolveNode ==
  \E raw \in RawIdentifiers, getOk \in BOOLEAN :
    LET identifier == parseNodeIdentifier(raw)
    IN  /\ last' = [op |-> "resolve", identifier |-> identifier, getOk |-> getOk,
                    result |-> resolveNode(nodes, getOk, identifier)]
        /\ UNCHANGED <<nodes, configs, cache, now, ctl>>

NextResolve ==
  \/ ApplyParseNodeIdentifier
  \/ ApplyResolveNode

SpecResolve == InitResolve /\ [][NextResolve]_vars

\* C12: parseNodeIdentifier classifies every string, in the order XName
\* syntax, then non-negative integer, then MAC syntax, then Unknown, and its
\* Value is the raw input.
C12_ClassifiedInOrder ==
  last.op = "parse" =>
    /\ last.result.Value = last.raw
    /\ last.result.Type =
         IF ValidateXName(last.raw) THEN IdentifierXName
         ELSE IF AtoiOk(last.raw) /\ AtoiVal(last.raw) >= 0 THEN IdentifierNID
         ELSE IF ValidateMAC(last.raw) THEN IdentifierMAC
         ELSE IdentifierUnknown

\* the integer zero is classified as a NID
C12_Witness ==
  /\ last.op = "parse"
  /\ last.raw = <<"0">>
  /\ last.result = [Value |-> <<"0">>, Type |-> IdentifierNID]

\* the field of nodeItem selected by the identifier's kind matches its value
SelectedFieldMatches(nodeItem, identifier) ==
  \/ identifier.Type = IdentifierXName /\ nodeItem.XName = identifier.Value
  \/ identifier.Type = IdentifierNID /\ nodeItem.NID = AtoiVal(identifier.Value)
  \/ identifier.Type = IdentifierMAC /\ EqualFold(nodeItem.BootMAC, identifier.Value)

\* C17: resolveNode returns the first node in GetNodes order whose selected
\* field matches, and fails without a node when GetNodes fails, when the
\* kind is Unknown or when no node matches.
C17_FirstMatchInOrder ==
  last.op = "resolve" =>
    LET hit(i) == SelectedFieldMatches(nodes[i], last.identifier)
    IN  IF last.getOk /\ \E i \in 1..Len(nodes) : hit(i)
          THEN /\ last.result.err = ""
               /\ last.result.idx \in 1..Len(nodes)
               /\ hit(last.result.idx)
               /\ \A j \in 1..(last.result.idx - 1) : ~hit(j)
          ELSE last.result.idx = 0 /\ last.result.err # ""

\* two nodes of the inventory match and the first one is returned
C17_Witness ==
  /\ last.op = "resolve"
  /\ Len(nodes) = 2
  /\ SelectedFieldMatches(nodes[1], last.identifier)
  /\ SelectedFieldMatches(nodes[2], last.identifier)
  /\ nodes[1] # nodes[2]
  /\ last.result = [idx |-> 1, err |-> ""]

(***************************************************************************)
(* Provider runs (part_002): a FlexibleBootScriptController built from a   *)
(* ProviderConfig, and its StartBackgroundSync, GetProviderStats and       *)
(* HealthCheck.  nodeProvider and syncProvider are TRUE when not nil.      *)
(* last.config remembers the configuration the controller was built from.  *)
(***************************************************************************)
\* mutation of StartBackgroundSync: the worker starts whenever there is a
\* node provider
StartBackgroundSyncAnyProvider(controller, ctx) ==
  IF ~controller.nodeProvider THEN <<>> ELSE <<ctx>>

\* the contexts StartSyncWorker was invoked with
StartBackgroundSync(controller, ctx) ==
  IF ~controller.syncProvider THEN <<>> ELSE <<ctx>>

\* providerStats: what nodeProvider.GetStats returns
GetProviderStats(controller, providerStats) ==
  IF ~controller.nodeProvider
    THEN ("provider_type" :> controller.providerType)
           @@ ("provider_configured" :> FALSE)
    ELSE ("provider_type" :> controller.providerType)
           @@ ("provider_configured" :> TRUE)
           @@ ("sync_supported" :> controller.syncProvider)
           @@ providerStats

\* providerHealth: what nodeProvider.HealthCheck returns ("" is nil)
HealthCheck(controller, providerHealth) ==
  IF ~controller.nodeProvider THEN "" ELSE providerHealth

ProviderTypes == {"hsm", "yaml", "redfish", "HSM", ""}

ProviderConfigs ==
  {ProviderConfig(type, syncEnabled, yamlLoads) :
     type \in ProviderTypes, syncEnabled \in BOOLEAN, yamlLoads \in BOOLEAN}

\* maps a provider's GetStats can return
ProviderStats ==
  {"healthy" :> TRUE, "healthy" :> FALSE, "sync_supported" :> TRUE,
   "provider_configured" :> FALSE}

ProviderHealths == {"", "unreachable"}

Contexts == {"ctx-a", "ctx-b", "ctx-c"}

InitProvider ==
  /\ nodes = <<Node1>>
  /\ configs = <<>>
  /\ cache = NewScriptCache
  /\ now = 0
  /\ \E config \in ProviderConfigs :
       /\ ctl = NewFlexibleBootScriptController(config)
       /\ last = [op |-> "new", config |-> config]

CallStartBackgroundSync ==
  /\ ctl.kind = "flexible"
  /\ \E ctx \in Contexts :
       last' = [op |-> "sync", config |-> last.config, ctx |-> ctx,
                started |-> StartBackgroundSync(ctl, ctx)]
  /\ UNCHANGED <<nodes, configs, cache, now, ctl>>

CallGetProviderStats ==
  /\ ctl.kind = "flexible"
  /\ \E providerStats \in ProviderStats :
       last' = [op |-> "stats", config |-> last.config,
                stats |-> GetProviderStats(ctl, providerStats)]
  /\ UNCHANGED <<nodes, configs, cache, now, ctl>>

CallHealthCheck ==
  /\ ctl.kind = "flexible"
  /\ \E providerHealth \in ProviderHealths :
       last' = [op |-> "health", config |-> last.config,
                result |-> HealthCheck(ctl, providerHealth)]
  /\ UNCHANGED <<nodes, configs, cache, now, ctl>>

NextProvider ==
  \/ CallStartBackgroundSync
  \/ CallGetProviderStats
  \/ CallHealthCheck

SpecProvider == InitProvider /\ [][NextProvider]_vars

\* C13: a controller built with a provider type other than "hsm" and "yaml"
\* is constructed without error and has neither a node provider nor a sync
\* provider; its HealthCheck returns nil, its GetProviderStats reports
\* provider_configured = false, and its StartBackgroundSync starts no worker.
C13_UnknownTypeIsBasic ==
  last.config.Type \notin {"hsm", "yaml"} =>
    /\ ctl.kind = "flexible"
    /\ ~ctl.nodeProvider
    /\ ~ctl.syncProvider
    /\ last.op = "health" => last.result = ""
    /\ last.op = "stats" => last.stats["provider_configured"] = FALSE
    /\ last.op = "sync" => last.started = <<>>

\* the statistics of a controller built with the type "redfish"
C13_Witness ==
  /\ last.op = "stats"
  /\ last.config.Type = "redfish"
  /\ last.stats["provider_configured"] = FALSE

\* the provider of this configuration supports background synchronisation
SyncSupported(config) ==
  \/ config.Type = "hsm"
  \/ config.Type = "yaml" /\ config.SyncEnabled

\* C19: StartBackgroundSync invokes StartSyncWorker, once and with the
\* caller's context, exactly when the type is "hsm" or the type is "yaml"
\* with SyncEnabled; otherwise it starts nothing.  GetProviderStats reports
\* sync_supported as true exactly in the same cases.
C19_SyncOnlyWhenSupported ==
  ctl.kind = "flexible" =>
    /\ last.op = "sync" =>
         last.started = IF SyncSupported(last.config) THEN <<last.ctx>> ELSE <<>>
    /\ last.op = "stats" =>
         (("sync_supported" \in DOMAIN last.stats /\ last.stats["sync_supported"])
            <=> SyncSupported(last.config))

\* a YAML provider with SyncEnabled off: nothing is started
C19_Witness ==
  /\ last.op = "sync"
  /\ last.config.Type = "yaml"
  /\ ~last.config.SyncEnabled
  /\ ctl.nodeProvider
  /\ last.started = <<>>

(***************************************************************************)
(* Scoring runs: calculateConfigScore applied to one node and the          *)
(* configurations of a list, among them one that lists a boot MAC twice.   *)
(***************************************************************************)
\* longest configuration list of the scoring runs
MaxScoreConfigs == 2

\* one boot MAC listed twice, in lower and in upper case, and a group
cfgMacTwice ==
  Config("by-mac-twice", <<>>, <<MacLower, MacUpper>>, <<>>, <<"compute">>, "", 10)

ScoreCatalog == MatchCatalog \cup {cfgMacTwice}

InitScore ==
  /\ nodes \in {<<n>> : n \in NodeCatalog}
  /\ configs \in SeqsUpTo(ScoreCatalog, MaxScoreConfigs)
  /\ cache = NewScriptCache
  /\ now = 0
  /\ last = Idle
  /\ ctl = NoController

NextScore == ApplyCalculateConfigScore

SpecScore == InitScore /\ [][NextScore]_vars

\* the score as the claim computes it: 100 once for the MACs
ScoreWithMacOnce(config, node) ==
  LET macPart == IF \E k \in 1..Len(config.MACs) :
                      EqualFold(config.MACs[k], node.BootMAC)
                   THEN 100 ELSE 0
      nidPart == 75 * Cardinality({k \in 1..Len(config.NIDs) :
                                     config.NIDs[k] = node.NID})
      hostPart == 50 * Cardinality({k \in 1..Len(config.Hosts) :
                        config.Hosts[k] \in {<<"*">>, node.XName, node.Hostname}})
      groupPart == 25 * Cardinality({k \in 1..Len(config.Groups) :
                         \E g \in 1..Len(node.Groups) :
                           config.Groups[k] = node.Groups[g]})
  IN  IF NoTargeting(config) THEN 1
      ELSE macPart + nidPart + hostPart + groupPart

\* C16: the score is 100 once if any configured MAC matches, plus 75 per
\* matching NID, plus 50 per matching host pattern, plus 25 per configured
\* group of the node (and 1 for a configuration without targeting fields).
C16_ScoreIsSumWithMacOnce ==
  last.op = "score" =>
    last.score = ScoreWithMacOnce(configs[last.idx], nodes[1])

====
